---- MODULE Spec2Model ----
(***************************************************************************)
(* Model of the analyze_task_complexity tool of agentic-tools-mcp:         *)
(* task selection, the complexity scorer, the breakdown suggestion         *)
(* generator, the auto-creation of subtasks and the handler's error        *)
(* boundary.                                                               *)
(*                                                                         *)
(* Strings are TLA+ strings; String.includes, toLowerCase and substring    *)
(* are computed character by character.  An optional number (complexity,   *)
(* estimatedHours) that is absent is the value Absent: the code reads      *)
(* these fields only through `x || d` and `x && x > n`, where undefined    *)
(* and 0 take the same branch.                                             *)
(***************************************************************************)
EXTENDS Integers, Sequences, FiniteSets, TLC

VARIABLES
    storage,          \* the storage collaborator: projects, tasks, subtasks
    args,             \* the arguments of the invocation
    pc,               \* position of the handler / of the function call
    tasksToAnalyze,   \* handler local
    projects,         \* handler local: result of getProjects()
    projIdx,          \* handler local: position of `for (const project of projects)`
    analysisResults,  \* handler local: result of analyzeTaskComplexity
    ti,               \* autoCreateSubtasksFromSuggestions: index of the task
    si,               \* autoCreateSubtasksFromSuggestions: index of the suggestion
    calls,            \* storage calls issued so far, in order
    thrownAt,         \* index in calls of the storage call that threw, 0 if none
    response,         \* what the handler returned
    input,            \* argument of a function-level call
    output            \* result of a function-level call

vars == <<storage, args, pc, tasksToAnalyze, projects, projIdx, analysisResults,
          ti, si, calls, thrownAt, response, input, output>>

handlerVars == <<storage, args, tasksToAnalyze, projects, projIdx, analysisResults,
                 ti, si, calls, thrownAt, response>>

(***************************************************************************)
(* Bounds                                                                  *)
(***************************************************************************)
MaxTasks == 2

(***************************************************************************)
(* JavaScript primitives                                                   *)
(***************************************************************************)
Absent == 0

Min(a, b) == IF a < b THEN a ELSE b
Max(a, b) == IF a > b THEN a ELSE b

\* Math.round of the quotient n/d (d > 0): floor(n/d + 1/2)
MathRound(n, d) == (2 * n + d) \div (2 * d)

UpperLetters == "ABCDEFGHIJKLMNOPQRSTUVWXYZ"
LowerLetters == "abcdefghijklmnopqrstuvwxyz"

LowerMap ==
    [ c \in { SubSeq(UpperLetters, i, i) : i \in 1..Len(UpperLetters) } |->
        LET i == CHOOSE k \in 1..Len(UpperLetters) : SubSeq(UpperLetters, k, k) = c
        IN  SubSeq(LowerLetters, i, i) ]

LowerChar(c) == IF c \in DOMAIN LowerMap THEN LowerMap[c] ELSE c

RECURSIVE ToLowerCase(_)
ToLowerCase(s) ==
    IF Len(s) = 0 THEN ""
    ELSE IF Len(s) = 1 THEN LowerChar(s)
    ELSE LET h == Len(s) \div 2
         IN  ToLowerCase(SubSeq(s, 1, h)) \o ToLowerCase(SubSeq(s, h + 1, Len(s)))

\* String.prototype.includes
Includes(s, k) ==
    \E i \in 1..(Len(s) - Len(k) + 1) : SubSeq(s, i, i + Len(k) - 1) = k

\* String.prototype.substring(0, n)
Substring0(s, n) == SubSeq(s, 1, Min(n, Len(s)))

\* Array.prototype.filter(...).length over a list of keywords
RECURSIVE CountMatches(_, _)
CountMatches(kws, s) ==
    IF kws = <<>> THEN 0
    ELSE (IF Includes(s, Head(kws)) THEN 1 ELSE 0) + CountMatches(Tail(kws), s)

\* Array.prototype.some over a list of keywords
SomeMatch(kws, s) == \E i \in 1..Len(kws) : Includes(s, kws[i])

RECURSIVE Repeat(_, _)
Repeat(s, n) ==
    IF n <= 0 THEN ""
    ELSE IF n = 1 THEN s
    ELSE Repeat(s, n \div 2) \o Repeat(s, n - n \div 2)

(***************************************************************************)
(* calculateComplexityScore                                                *)
(***************************************************************************)
DefaultComplexity == 5
ScoreCap == 10
LongNameLength == 50
LongDetailsLength == 500
HighHours == 20
ManyDependencies == 3
HighKeywordLimit == 2
ActionVerbLimit == 3

highComplexityKeywords ==
    << "architecture", "system", "integration", "security", "performance",
       "scalability", "database", "api", "framework", "refactor", "migration" >>

actionVerbs ==
    << "implement", "create", "build", "develop", "design", "setup",
       "configure", "test", "deploy", "document", "research" >>

\* task.complexity || 5
BaseScore(task) == IF task.complexity # Absent THEN task.complexity ELSE DefaultComplexity

\* the six heuristics, in the order the code checks them
NameTooLong(task) == Len(task.name) > LongNameLength
ManyHighKeywords_AtLeast(highComplexityMatches) == highComplexityMatches >= HighKeywordLimit
ManyHighKeywords(highComplexityMatches) == highComplexityMatches > HighKeywordLimit
ManyActionVerbs(actionMatches) == actionMatches > ActionVerbLimit
DetailsTooLong(task) == Len(task.details) > LongDetailsLength
HoursTooHigh(task) == task.estimatedHours # Absent /\ task.estimatedHours > HighHours
TooManyDependencies(task) == Len(task.dependsOn) > ManyDependencies

\* Math.min(10, score)
FinalScore_NoCap(score) == score
FinalScore(score) == Min(ScoreCap, score)

calculateComplexityScore(task) ==
    LET details == ToLowerCase(task.details)
        highComplexityMatches == CountMatches(highComplexityKeywords, details)
        actionMatches == CountMatches(actionVerbs, details)
        score ==
            BaseScore(task)
            + (IF NameTooLong(task) THEN 1 ELSE 0)
            + (IF ManyHighKeywords(highComplexityMatches) THEN 2 ELSE 0)
            + (IF ManyActionVerbs(actionMatches) THEN 1 ELSE 0)
            + (IF DetailsTooLong(task) THEN 1 ELSE 0)
            + (IF HoursTooHigh(task) THEN 1 ELSE 0)
            + (IF TooManyDependencies(task) THEN 1 ELSE 0)
        issues ==
            (IF NameTooLong(task)
                THEN << "Task name is very long, suggesting multiple concerns" >>
                ELSE << >>)
            \o (IF ManyHighKeywords(highComplexityMatches)
                THEN << "Contains " \o ToString(highComplexityMatches)
                        \o " high-complexity keywords" >>
                ELSE << >>)
            \o (IF ManyActionVerbs(actionMatches)
                THEN << "Contains " \o ToString(actionMatches)
                        \o " different action verbs, suggesting multiple tasks" >>
                ELSE << >>)
            \o (IF DetailsTooLong(task)
                THEN << "Task description is very detailed, suggesting high complexity" >>
                ELSE << >>)
            \o (IF HoursTooHigh(task)
                THEN << "High time estimate (" \o ToString(task.estimatedHours)
                        \o " hours) suggests complexity" >>
                ELSE << >>)
            \o (IF TooManyDependencies(task)
                THEN << "Many dependencies (" \o ToString(Len(task.dependsOn))
                        \o ") suggest complex coordination" >>
                ELSE << >>)
    IN  [ score |-> FinalScore(score), issues |-> issues ]

(***************************************************************************)
(* generateTaskBreakdownSuggestions                                        *)
(***************************************************************************)
DetailsPreviewLength == 200
PatternHoursDefault == 8
GenericHoursDefault == 16
HoursDivisor == 3
PatternComplexityOffset == 2
PlanningComplexityOffset == 3
TestingComplexityOffset == 3

breakdownPatterns(task) ==
    << [ keywords |-> << "research", "investigate", "analyze" >>,
         suggestion |->
           [ name |-> "Research and Analysis for " \o task.name,
             details |-> "Research requirements, analyze existing solutions, and document findings for: "
                         \o Substring0(task.details, DetailsPreviewLength),
             tags |-> << "research", "analysis" >> ] ],
       [ keywords |-> << "design", "architecture", "plan" >>,
         suggestion |->
           [ name |-> "Design and Planning for " \o task.name,
             details |-> "Create detailed design and implementation plan for: "
                         \o Substring0(task.details, DetailsPreviewLength),
             tags |-> << "design", "planning" >> ] ],
       [ keywords |-> << "implement", "develop", "build", "code" >>,
         suggestion |->
           [ name |-> "Core Implementation for " \o task.name,
             details |-> "Implement the main functionality for: "
                         \o Substring0(task.details, DetailsPreviewLength),
             tags |-> << "implementation", "development" >> ] ],
       [ keywords |-> << "test", "testing", "validation" >>,
         suggestion |->
           [ name |-> "Testing and Validation for " \o task.name,
             details |-> "Create and execute tests to validate: "
                         \o Substring0(task.details, DetailsPreviewLength),
             tags |-> << "testing", "validation" >> ] ],
       [ keywords |-> << "document", "documentation", "guide" >>,
         suggestion |->
           [ name |-> "Documentation for " \o task.name,
             details |-> "Create comprehensive documentation for: "
                         \o Substring0(task.details, DetailsPreviewLength),
             tags |-> << "documentation" >> ] ] >>

ComplexityOrDefault(task) ==
    IF task.complexity # Absent THEN task.complexity ELSE DefaultComplexity

HoursOr(task, default) ==
    IF task.estimatedHours # Absent THEN task.estimatedHours ELSE default

\* const details = task.details.toLowerCase()
LoweredDetails_CaseSensitive(task) == task.details
LoweredDetails(task) == ToLowerCase(task.details)

\* Math.max(1, (task.complexity || 5) - offset)
PhaseComplexity_NoFloor(task, offset) == ComplexityOrDefault(task) - offset
PhaseComplexity(task, offset) == Max(1, ComplexityOrDefault(task) - offset)

\* pattern.keywords.some(keyword => details.includes(keyword))
PatternMatches(pattern, details) == SomeMatch(pattern.keywords, details)

PatternSuggestion(pattern, task) ==
    [ name |-> pattern.suggestion.name,
      details |-> pattern.suggestion.details,
      projectId |-> task.projectId,
      priority |-> task.priority,
      complexity |-> PhaseComplexity(task, PatternComplexityOffset),
      tags |-> pattern.suggestion.tags,
      estimatedHours |-> MathRound(HoursOr(task, PatternHoursDefault), HoursDivisor) ]

\* the loop over breakdownPatterns, pushing one suggestion per matching pattern
RECURSIVE PatternSuggestions(_, _, _)
PatternSuggestions(patterns, details, task) ==
    IF patterns = << >> THEN << >>
    ELSE (IF PatternMatches(Head(patterns), details)
             THEN << PatternSuggestion(Head(patterns), task) >> ELSE << >>)
         \o PatternSuggestions(Tail(patterns), details, task)

\* baseHours = (task.estimatedHours || 16) / 3, kept as the numerator over HoursDivisor
GenericSuggestions(task) ==
    LET baseHoursNum == HoursOr(task, GenericHoursDefault)
    IN  << [ name |-> "Planning Phase: " \o task.name,
             details |-> "Plan and design approach for: "
                         \o Substring0(task.details, DetailsPreviewLength),
             projectId |-> task.projectId,
             priority |-> task.priority,
             complexity |-> PhaseComplexity(task, PlanningComplexityOffset),
             tags |-> << "planning" >>,
             estimatedHours |-> MathRound(baseHoursNum, HoursDivisor) ],
           [ name |-> "Implementation Phase: " \o task.name,
             details |-> "Implement core functionality for: "
                         \o Substring0(task.details, DetailsPreviewLength),
             projectId |-> task.projectId,
             priority |-> task.priority,
             complexity |-> PhaseComplexity(task, PatternComplexityOffset),
             tags |-> << "implementation" >>,
             estimatedHours |-> MathRound(baseHoursNum * 2, HoursDivisor) ],
           [ name |-> "Testing Phase: " \o task.name,
             details |-> "Test and validate implementation for: "
                         \o Substring0(task.details, DetailsPreviewLength),
             projectId |-> task.projectId,
             priority |-> task.priority,
             complexity |-> PhaseComplexity(task, TestingComplexityOffset),
             tags |-> << "testing" >>,
             estimatedHours |-> MathRound(baseHoursNum, HoursDivisor) ] >>

generateTaskBreakdownSuggestions_NoFallback(task) ==
    PatternSuggestions(breakdownPatterns(task), LoweredDetails(task), task)
generateTaskBreakdownSuggestions(task) ==
    LET details == LoweredDetails(task)
        suggestions == PatternSuggestions(breakdownPatterns(task), details, task)
    IN  IF Len(suggestions) = 0 THEN GenericSuggestions(task) ELSE suggestions

(***************************************************************************)
(* analyzeTaskComplexity                                                   *)
(***************************************************************************)
\* the `continue` of the loop: completed tasks are skipped
Skipped_CompletedOnly(task) == task.completed
Skipped(task) == task.completed \/ task.status = "done"

\* the classification test of the loop
ExceedsThreshold_Strict(score, threshold) == score > threshold
ExceedsThreshold(score, threshold) == score >= threshold

SuggestionsFor(task, suggestBreakdown) ==
    IF suggestBreakdown THEN generateTaskBreakdownSuggestions(task) ELSE << >>

\* one entry of complexTasks: {...task, analysisScore, issues, suggestions}
ComplexEntry(task, analysisResult, suggestBreakdown) ==
    [ task |-> task,
      analysisScore |-> analysisResult.score,
      issues |-> analysisResult.issues,
      suggestions |-> SuggestionsFor(task, suggestBreakdown) ]

\* the loop state after the tasks of `tasks`: complexTasks, totalComplexity, tasksWithComplexity
RECURSIVE AnalyzeLoop(_, _, _)
AnalyzeLoop(tasks, threshold, suggestBreakdown) ==
    IF tasks = << >>
    THEN [ complexTasks |-> << >>, totalComplexity |-> 0, tasksWithComplexity |-> 0 ]
    ELSE LET n == Len(tasks)
             before == AnalyzeLoop(SubSeq(tasks, 1, n - 1), threshold, suggestBreakdown)
             task == tasks[n]
             analysisResult == calculateComplexityScore(task)
         IN  IF Skipped(task) THEN before
             ELSE [ complexTasks |->
                      IF ExceedsThreshold(analysisResult.score, threshold)
                      THEN Append(before.complexTasks,
                                  ComplexEntry(task, analysisResult, suggestBreakdown))
                      ELSE before.complexTasks,
                    totalComplexity |-> before.totalComplexity + analysisResult.score,
                    tasksWithComplexity |-> before.tasksWithComplexity + 1 ]

\* averageComplexity is the quotient num/den (a float in the code)
analyzeTaskComplexity(tasks, threshold, suggestBreakdown) ==
    LET l == AnalyzeLoop(tasks, threshold, suggestBreakdown)
    IN  [ complexTasks |-> l.complexTasks,
          simpleTasksCount |-> l.tasksWithComplexity - Len(l.complexTasks),
          totalTasksAnalyzed |-> l.tasksWithComplexity,
          averageComplexity |->
              IF l.tasksWithComplexity > 0
              THEN [ num |-> l.totalComplexity, den |-> l.tasksWithComplexity ]
              ELSE [ num |-> 0, den |-> 1 ] ]

(***************************************************************************)
(* Input domains                                                           *)
(***************************************************************************)
\* complexity is 1..10 when present
Complexities == {Absent} \cup (1..10)

EstimatedHoursValues == {Absent, 1, 2, 8, 20, 21}

Names == { "Fix login", Repeat("n", LongNameLength), Repeat("n", LongNameLength + 1) }

DependsOnValues ==
    { << >>, << "d1", "d2", "d3" >>, << "d1", "d2", "d3", "d4" >> }

AllSignalsText ==
    "Research, design, implement, build, test, deploy and document the system "
    \o "architecture: database migration, API security. "

DetailsTexts ==
    { "",
      "Fix the colour of the login button",
      "test this implementation",
      "Test This IMPLEMENTATION",
      "Validation guide, then research",
      "Refactor the database api for security",
      "system integration",
      "System integration and security",
      "implement create build",
      "create setup configure deploy",
      Repeat("x", LongDetailsLength),
      Repeat("x", LongDetailsLength + 1),
      AllSignalsText \o Repeat("y", LongDetailsLength) }

TaskInputs ==
    [ id : {"t1"}, name : Names, details : DetailsTexts,
      completed : {FALSE}, status : {"pending"},
      complexity : Complexities, estimatedHours : EstimatedHoursValues,
      dependsOn : DependsOnValues, projectId : {"p1"}, priority : {5} ]

(***************************************************************************)
(* Values of the variables a specification does not use                    *)
(***************************************************************************)
NoStorage == [ projects |-> << >>, tasks |-> [ p \in {"p1", "p2"} |-> << >> ], subtasks |-> << >> ]
NoArgs == [ taskId |-> "", projectId |-> "", complexityThreshold |-> 7,
            suggestBreakdown |-> TRUE, autoCreateSubtasks |-> FALSE ]
NoResponse == [ type |-> "none", text |-> "", isError |-> FALSE ]
NoResults == [ complexTasks |-> << >>, simpleTasksCount |-> 0, totalTasksAnalyzed |-> 0,
               averageComplexity |-> [ num |-> 0, den |-> 1 ] ]
NoInput == [ none |-> TRUE ]
NoOutput == [ none |-> TRUE ]

HandlerIdle ==
    /\ storage = NoStorage
    /\ args = NoArgs
    /\ tasksToAnalyze = << >>
    /\ projects = << >>
    /\ projIdx = 1
    /\ analysisResults = NoResults
    /\ ti = 1
    /\ si = 1
    /\ calls = << >>
    /\ thrownAt = 0
    /\ response = NoResponse

(***************************************************************************)
(* SpecTask: the scorer and the suggestion generator applied to one task   *)
(***************************************************************************)
InitTask ==
    /\ HandlerIdle
    /\ pc = "call"
    /\ input \in [ task : TaskInputs ]
    /\ output = NoOutput

ScoreTask ==
    /\ pc = "call"
    /\ pc' = "scored"
    /\ output' = calculateComplexityScore(input.task)
    /\ UNCHANGED <<input, handlerVars>>

SuggestTask ==
    /\ pc = "call"
    /\ pc' = "suggested"
    /\ output' = generateTaskBreakdownSuggestions(input.task)
    /\ UNCHANGED <<input, handlerVars>>

NextTask == ScoreTask \/ SuggestTask

SpecTask == InitTask /\ [][NextTask]_vars

(***************************************************************************)
(* SpecAnalyze: analyzeTaskComplexity applied to a list of tasks           *)
(***************************************************************************)
PlainDetails == "Fix the colour of the login button"

AnalyzeProfiles ==
    { [ complexity |-> 7, details |-> PlainDetails,
        completed |-> FALSE, status |-> "pending" ],
      [ complexity |-> Absent, details |-> "Refactor the database api for security",
        completed |-> FALSE, status |-> "pending" ],
      [ complexity |-> 9, details |-> "test this implementation",
        completed |-> TRUE, status |-> "pending" ],
      [ complexity |-> 8, details |-> PlainDetails,
        completed |-> FALSE, status |-> "done" ],
      [ complexity |-> 3, details |-> "",
        completed |-> FALSE, status |-> "in-progress" ],
      [ complexity |-> 10, details |-> "Validation guide, then research",
        completed |-> FALSE, status |-> "pending" ],
      [ complexity |-> 6, details |-> PlainDetails,
        completed |-> FALSE, status |-> "pending" ] }

Thresholds == {1, 6, 7, 8, 10}

\* the k-th task of a list, built from a profile
MakeTask(profile, k, projectId) ==
    [ id |-> "t" \o ToString(k), name |-> "Task " \o ToString(k),
      details |-> profile.details,
      completed |-> profile.completed, status |-> profile.status,
      complexity |-> profile.complexity, estimatedHours |-> Absent,
      dependsOn |-> << >>, projectId |-> projectId, priority |-> 5 ]

ProfileLists(profiles, n) == UNION { [ 1..k -> profiles ] : k \in 0..n }

InitAnalyze ==
    /\ HandlerIdle
    /\ pc = "call"
    /\ \E ps \in ProfileLists(AnalyzeProfiles, MaxTasks) :
       \E threshold \in Thresholds, suggestBreakdown \in BOOLEAN :
          input = [ tasks |-> [ k \in 1..Len(ps) |-> MakeTask(ps[k], k, "p1") ],
                    threshold |-> threshold,
                    suggestBreakdown |-> suggestBreakdown ]
    /\ output = NoOutput

Analyze ==
    /\ pc = "call"
    /\ pc' = "analyzed"
    /\ output' = analyzeTaskComplexity(input.tasks, input.threshold, input.suggestBreakdown)
    /\ UNCHANGED <<input, handlerVars>>

NextAnalyze == Analyze

SpecAnalyze == InitAnalyze /\ [][NextAnalyze]_vars

(***************************************************************************)
(* generateComplexityAnalysisReport: the report as its sequence of blocks  *)
(***************************************************************************)
IssuePreviewLength == 100

\* averageComplexity.toFixed(1), in tenths
ToFixed1(q) == MathRound(10 * q.num, q.den)

ReportSummary(results, threshold) ==
    [ block |-> "summary",
      totalTasksAnalyzed |-> results.totalTasksAnalyzed,
      complexTasks |-> Len(results.complexTasks),
      simpleTasksCount |-> results.simpleTasksCount,
      threshold |-> threshold,
      averageTenths |-> ToFixed1(results.averageComplexity) ]

ReportTask(entry, index) ==
    [ block |-> "task",
      number |-> index,
      name |-> entry.task.name,
      analysisScore |-> entry.analysisScore,
      preview |-> Substring0(entry.task.details, IssuePreviewLength)
                  \o (IF Len(entry.task.details) > IssuePreviewLength THEN "..." ELSE ""),
      issues |-> entry.issues,
      suggestions |-> [ k \in 1..Len(entry.suggestions) |->
                          [ name |-> entry.suggestions[k].name,
                            estimatedHours |-> entry.suggestions[k].estimatedHours ] ] ]

generateComplexityAnalysisReport(results, threshold, autoCreated) ==
    IF Len(results.complexTasks) = 0
    THEN << ReportSummary(results, threshold), [ block |-> "allClear" ] >>
    ELSE << ReportSummary(results, threshold), [ block |-> "complexTasksHeader" ] >>
         \o [ k \in 1..Len(results.complexTasks) |-> ReportTask(results.complexTasks[k], k) ]
         \o (IF autoCreated THEN << [ block |-> "autoCreatedConfirmation" ] >> ELSE << >>)
         \o (IF Len(results.complexTasks) > 0
             THEN << [ block |-> "yourActions" ] >>
                  \o (IF ~autoCreated
                      THEN << [ block |-> "breakDownComplexTasks" ] >>
                      ELSE << [ block |-> "reviewAutoCreatedSubtasks" ] >>)
                  \o << [ block |-> "reanalyze" ],
                        [ block |-> "determineNextTask" ],
                        [ block |-> "proTip" ] >>
             ELSE << [ block |-> "yourNextStep" ] >>)

(***************************************************************************)
(* The storage collaborator                                                *)
(***************************************************************************)
ProjectIds == {"p1", "p2"}
NullTask == [ null |-> TRUE ]

StorageTaskList(st) ==
    LET RECURSIVE Concat(_)
        Concat(ps) == IF ps = << >> THEN << >> ELSE st.tasks[Head(ps)] \o Concat(Tail(ps))
    IN  Concat(<< "p1", "p2" >>)

StorageGetTask(st, id) ==
    LET all == StorageTaskList(st)
    IN  IF \E k \in 1..Len(all) : all[k].id = id
        THEN all[CHOOSE k \in 1..Len(all) : all[k].id = id]
        ELSE NullTask

StorageGetTasks(st, projectId) == st.tasks[projectId]

StorageGetProjects(st) == [ k \in 1..Len(st.projects) |-> [ id |-> st.projects[k] ] ]

StorageCreateSubtask(st, record) ==
    [ st EXCEPT !.subtasks =
        Append(@, [ record EXCEPT !.id = "s" \o ToString(Len(st.subtasks) + 1) ]) ]

\* what a failing storage call throws: an Error with a message, or another value
ThrownValues == { [ isErrorInstance |-> TRUE, message |-> "storage failure" ],
                  [ isErrorInstance |-> FALSE, message |-> "" ] }

(***************************************************************************)
(* The handler of analyze_task_complexity                                  *)
(***************************************************************************)
TextResponse(text, isError) == [ type |-> "text", text |-> text, isError |-> isError ]

\* the response of the catch block
CatchResponse_NotFlagged(error) ==
    TextResponse("Error analyzing task complexity: "
                    \o (IF error.isErrorInstance THEN error.message ELSE "Unknown error"),
                 FALSE)
CatchResponse(error) ==
    TextResponse("Error analyzing task complexity: "
                    \o (IF error.isErrorInstance THEN error.message ELSE "Unknown error"),
                 TRUE)

NotFoundResponse(taskId) ==
    TextResponse("Error: Task with ID \"" \o taskId \o "\" not found.", TRUE)

NoTasksResponse == TextResponse("No tasks found for analysis.", FALSE)

\* the request autoCreateSubtasksFromSuggestions sends for a suggestion of a task
\* (createdAt and updatedAt, the current instant, are left out)
SubtaskRequest_Untagged(entry, suggestion) ==
    [ id |-> "",
      name |-> suggestion.name,
      details |-> suggestion.details,
      taskId |-> "",
      projectId |-> suggestion.projectId,
      completed |-> FALSE ]
SubtaskRequest(entry, suggestion) ==
    [ id |-> "",
      name |-> suggestion.name,
      details |-> suggestion.details,
      taskId |-> entry.task.id,
      projectId |-> entry.task.projectId,
      completed |-> FALSE ]

\* the first task at or after position t whose suggestions loop has an iteration
RECURSIVE NextTaskWithSuggestions(_, _)
NextTaskWithSuggestions(complexTasks, t) ==
    IF t > Len(complexTasks) THEN t
    ELSE IF Len(complexTasks[t].suggestions) > 0 THEN t
    ELSE NextTaskWithSuggestions(complexTasks, t + 1)

\* the guard of the auto-creation
ShouldAutoCreate(autoCreateSubtasks, results) ==
    autoCreateSubtasks /\ Len(results.complexTasks) > 0

\* a rejected storage read: control passes to the catch block
Caught(error) ==
    /\ thrownAt' = Len(calls')
    /\ response' = CatchResponse(error)
    /\ pc' = "done"

\* the branch conditions of the task selection
UseTaskId(a) == a.taskId # ""
UseProjectId_First(a) == a.projectId # ""
UseProjectId(a) == a.taskId = "" /\ a.projectId # ""
UseAllProjects(a) == a.taskId = "" /\ a.projectId = ""

\* if (taskId) { const task = await storage.getTask(taskId); ... }
GetTask ==
    /\ pc = "start"
    /\ UseTaskId(args)
    /\ calls' = Append(calls, [ op |-> "getTask", id |-> args.taskId ])
    /\ \/ \E error \in ThrownValues :
            /\ Caught(error)
            /\ UNCHANGED tasksToAnalyze
       \/ LET task == StorageGetTask(storage, args.taskId)
          IN  IF task = NullTask
              THEN /\ response' = NotFoundResponse(args.taskId)
                   /\ pc' = "done"
                   /\ UNCHANGED <<tasksToAnalyze, thrownAt>>
              ELSE /\ tasksToAnalyze' = << task >>
                   /\ pc' = "selected"
                   /\ UNCHANGED <<response, thrownAt>>
    /\ UNCHANGED <<storage, args, projects, projIdx, analysisResults, ti, si, input, output>>

\* else if (projectId) { tasksToAnalyze = await storage.getTasks(projectId); }
GetTasksOfProject ==
    /\ pc = "start"
    /\ UseProjectId(args)
    /\ calls' = Append(calls, [ op |-> "getTasks", id |-> args.projectId ])
    /\ \/ \E error \in ThrownValues :
            /\ Caught(error)
            /\ UNCHANGED tasksToAnalyze
       \/ /\ tasksToAnalyze' = StorageGetTasks(storage, args.projectId)
          /\ pc' = "selected"
          /\ UNCHANGED <<response, thrownAt>>
    /\ UNCHANGED <<storage, args, projects, projIdx, analysisResults, ti, si, input, output>>

\* else { const projects = await storage.getProjects(); ... }
GetProjects ==
    /\ pc = "start"
    /\ UseAllProjects(args)
    /\ calls' = Append(calls, [ op |-> "getProjects", id |-> "" ])
    /\ \/ \E error \in ThrownValues :
            /\ Caught(error)
            /\ UNCHANGED projects
       \/ /\ projects' = StorageGetProjects(storage)
          /\ pc' = IF Len(projects') = 0 THEN "selected" ELSE "projects"
          /\ UNCHANGED <<response, thrownAt>>
    /\ UNCHANGED <<storage, args, tasksToAnalyze, projIdx, analysisResults, ti, si,
                   input, output>>

\* for (const project of projects) { tasksToAnalyze.push(...await storage.getTasks(project.id)); }
GetTasksOfNextProject ==
    /\ pc = "projects"
    /\ calls' = Append(calls, [ op |-> "getTasks", id |-> projects[projIdx].id ])
    /\ \/ \E error \in ThrownValues :
            /\ Caught(error)
            /\ UNCHANGED <<tasksToAnalyze, projIdx>>
       \/ /\ tasksToAnalyze' = tasksToAnalyze \o StorageGetTasks(storage, projects[projIdx].id)
          /\ projIdx' = projIdx + 1
          /\ pc' = IF projIdx' > Len(projects) THEN "selected" ELSE "projects"
          /\ UNCHANGED <<response, thrownAt>>
    /\ UNCHANGED <<storage, args, projects, analysisResults, ti, si, input, output>>

\* if (tasksToAnalyze.length === 0) return "No tasks found for analysis."
ReturnNoTasks ==
    /\ pc = "selected"
    /\ Len(tasksToAnalyze) = 0
    /\ response' = NoTasksResponse
    /\ pc' = "done"
    /\ UNCHANGED <<storage, args, tasksToAnalyze, projects, projIdx, analysisResults,
                   ti, si, calls, thrownAt, input, output>>

\* analysisResults = await analyzeTaskComplexity(...); if (autoCreateSubtasks && ...) ...
AnalyzeTasks ==
    /\ pc = "selected"
    /\ Len(tasksToAnalyze) # 0
    /\ analysisResults' = analyzeTaskComplexity(tasksToAnalyze, args.complexityThreshold,
                                                args.suggestBreakdown)
    /\ IF ShouldAutoCreate(args.autoCreateSubtasks, analysisResults')
       THEN /\ ti' = NextTaskWithSuggestions(analysisResults'.complexTasks, 1)
            /\ si' = 1
            /\ pc' = IF ti' > Len(analysisResults'.complexTasks) THEN "report" ELSE "create"
       ELSE /\ pc' = "report"
            /\ UNCHANGED <<ti, si>>
    /\ UNCHANGED <<storage, args, tasksToAnalyze, projects, projIdx, calls, thrownAt,
                   response, input, output>>

\* storage.createSubtask({...}) is called for suggestion si of complex task ti
IssueCreateSubtask ==
    /\ pc = "create"
    /\ calls' = Append(calls,
                       [ op |-> "createSubtask",
                         record |-> SubtaskRequest(analysisResults.complexTasks[ti],
                                      analysisResults.complexTasks[ti].suggestions[si]) ])
    /\ pc' = "awaitCreate"
    /\ UNCHANGED <<storage, args, tasksToAnalyze, projects, projIdx, analysisResults,
                   ti, si, thrownAt, response, input, output>>

\* the next iteration of the two loops of autoCreateSubtasksFromSuggestions
NextIteration ==
    /\ IF si < Len(analysisResults.complexTasks[ti].suggestions)
       THEN /\ si' = si + 1
            /\ UNCHANGED ti
       ELSE /\ ti' = NextTaskWithSuggestions(analysisResults.complexTasks, ti + 1)
            /\ si' = 1
    /\ pc' = IF ti' > Len(analysisResults.complexTasks) THEN "report" ELSE "create"

\* the awaited createSubtask rejects: the loops are left for the catch block
CreateRejected_Swallowed(error) ==
    /\ thrownAt' = Len(calls)
    /\ response' = CatchResponse(error)
    /\ NextIteration
    /\ UNCHANGED storage
CreateRejected(error) ==
    /\ thrownAt' = Len(calls)
    /\ response' = CatchResponse(error)
    /\ pc' = "done"
    /\ UNCHANGED <<storage, ti, si>>

\* the awaited createSubtask settles: the loops go on, or the rejection is caught
CreateSubtaskSettles ==
    /\ pc = "awaitCreate"
    /\ \/ \E error \in ThrownValues : CreateRejected(error)
       \/ /\ storage' = StorageCreateSubtask(storage, calls[Len(calls)].record)
          /\ NextIteration
          /\ UNCHANGED <<thrownAt, response>>
    /\ UNCHANGED <<args, tasksToAnalyze, projects, projIdx, analysisResults, calls,
                   input, output>>

\* const report = generateComplexityAnalysisReport(...); return { content: [...] }
ReturnReport ==
    /\ pc = "report"
    /\ response' = TextResponse(
                      generateComplexityAnalysisReport(analysisResults,
                          args.complexityThreshold, args.autoCreateSubtasks),
                      FALSE)
    /\ pc' = "done"
    /\ UNCHANGED <<storage, args, tasksToAnalyze, projects, projIdx, analysisResults,
                   ti, si, calls, thrownAt, input, output>>

HandlerProfiles ==
    { [ complexity |-> 8, details |-> PlainDetails,
        completed |-> FALSE, status |-> "pending" ],
      [ complexity |-> 9, details |-> "test this implementation",
        completed |-> FALSE, status |-> "pending" ],
      [ complexity |-> 3, details |-> "",
        completed |-> FALSE, status |-> "pending" ] }

ProjectLists == { << "p1" >>, << "p2", "p1" >> }

ArgsDomain ==
    [ taskId : {"", "t1", "t9"}, projectId : {"", "p1"},
      complexityThreshold : {7, 9},
      suggestBreakdown : BOOLEAN, autoCreateSubtasks : BOOLEAN ]

Init ==
    /\ pc = "start"
    /\ args \in ArgsDomain
    /\ \E ps \in ProfileLists(HandlerProfiles \X ProjectIds, MaxTasks) :
       \E pl \in ProjectLists :
          LET all == [ k \in 1..Len(ps) |-> MakeTask(ps[k][1], k, ps[k][2]) ]
          IN  storage = [ projects |-> pl,
                          tasks |-> [ p \in ProjectIds |->
                                        SelectSeq(all, LAMBDA t : t.projectId = p) ],
                          subtasks |-> << >> ]
    /\ tasksToAnalyze = << >>
    /\ projects = << >>
    /\ projIdx = 1
    /\ analysisResults = NoResults
    /\ ti = 1
    /\ si = 1
    /\ calls = << >>
    /\ thrownAt = 0
    /\ response = NoResponse
    /\ input = NoInput
    /\ output = NoOutput

Next ==
    \/ GetTask
    \/ GetTasksOfProject
    \/ GetProjects
    \/ GetTasksOfNextProject
    \/ ReturnNoTasks
    \/ AnalyzeTasks
    \/ IssueCreateSubtask
    \/ CreateSubtaskSettles
    \/ ReturnReport

Spec == Init /\ [][Next]_vars

(***************************************************************************)
(* Properties of the scorer and of the suggestion generator (SpecTask)     *)
(***************************************************************************)
\* r is the integer nearest to n/d, halves rounded up (d > 0)
IsRounded(r, n, d) == 2 * d * r - d <= 2 * n /\ 2 * n < 2 * d * r + d

TemplateKeywords ==
    << {"research", "investigate", "analyze"},
       {"design", "architecture", "plan"},
       {"implement", "develop", "build", "code"},
       {"test", "testing", "validation"},
       {"document", "documentation", "guide"} >>

TemplateNamePrefix ==
    << "Research and Analysis for ", "Design and Planning for ",
       "Core Implementation for ", "Testing and Validation for ",
       "Documentation for " >>

\* the templates with a trigger keyword in the lower-cased details
MatchedTemplates(task) ==
    LET lower == ToLowerCase(task.details)
    IN  { i \in 1..Len(TemplateKeywords) : \E kw \in TemplateKeywords[i] : Includes(lower, kw) }

\* the k-th smallest element of the set of numbers M
KthOf(M, k) == CHOOSE i \in M : Cardinality({ j \in M : j < i }) = k - 1

ClaimComplexity(task) == IF task.complexity = Absent THEN 5 ELSE task.complexity
ClaimHours(task, default) == IF task.estimatedHours = Absent THEN default ELSE task.estimatedHours

C9_GenericBreakdown ==
    (pc = "suggested" /\ MatchedTemplates(input.task) = {}) =>
        LET task == input.task
            c == ClaimComplexity(task)
            h == ClaimHours(task, 16)
        IN  /\ Len(output) = 3
            /\ output[1].name = "Planning Phase: " \o task.name
            /\ output[2].name = "Implementation Phase: " \o task.name
            /\ output[3].name = "Testing Phase: " \o task.name
            /\ output[1].complexity = Max(1, c - 3)
            /\ output[2].complexity = Max(1, c - 2)
            /\ output[3].complexity = Max(1, c - 3)
            /\ IsRounded(output[1].estimatedHours, h, 3)
            /\ IsRounded(output[2].estimatedHours, 2 * h, 3)
            /\ IsRounded(output[3].estimatedHours, h, 3)

C9_GenericFloored ==
    /\ pc = "suggested"
    /\ MatchedTemplates(input.task) = {}
    /\ input.task.complexity = 2
    /\ input.task.estimatedHours = Absent
    /\ input.task.details # ""
    /\ Len(output) = 3
    /\ output[1].complexity = 1
    /\ output[2].estimatedHours = 11

\* C10: for a task whose details match at least one template the generator
\* emits exactly one suggestion per template with a trigger keyword in the
\* lower-cased details and none for the others, in template-definition
\* order whatever the position of the keywords in the text; each has
\* complexity max(1,c-2) and estimatedHours round(h/3), h the estimatedHours
\* or 8.
C10_TemplateBreakdown ==
    (pc = "suggested" /\ MatchedTemplates(input.task) # {}) =>
        LET task == input.task
            M == MatchedTemplates(task)
        IN  /\ Len(output) = Cardinality(M)
            /\ \A k \in 1..Len(output) :
                 /\ output[k].name = TemplateNamePrefix[KthOf(M, k)] \o task.name
                 /\ output[k].complexity = Max(1, ClaimComplexity(task) - 2)
                 /\ IsRounded(output[k].estimatedHours, ClaimHours(task, 8), 3)

C10_ImplementationBeforeTesting ==
    /\ pc = "suggested"
    /\ input.task.details = "test this implementation"
    /\ Len(output) = 2
    /\ output[1].tags = << "implementation", "development" >>
    /\ output[2].tags = << "testing", "validation" >>

(***************************************************************************)
(* Properties of analyzeTaskComplexity (SpecAnalyze)                       *)
(***************************************************************************)
\* positions of the tasks that are neither completed nor done
LivePositions(tasks) ==
    { i \in 1..Len(tasks) : ~tasks[i].completed /\ tasks[i].status # "done" }

ScoreOf(task) == calculateComplexityScore(task).score

RECURSIVE SumScores(_, _)
SumScores(tasks, positions) ==
    IF positions = {} THEN 0
    ELSE LET i == CHOOSE j \in positions : TRUE
         IN  ScoreOf(tasks[i]) + SumScores(tasks, positions \ {i})

ComplexIds(result) == { result.complexTasks[k].task.id : k \in 1..Len(result.complexTasks) }

\* C5: a task with completed=true or status="done" never appears in
\* complexTasks and is not counted: totalTasksAnalyzed is the number of tasks
\* neither completed nor done, simpleTasksCount + |complexTasks| =
\* totalTasksAnalyzed, and averageComplexity is the sum of the scores of
\* exactly those tasks divided by their count (0 when there are none).
C5_CompletedExcluded ==
    pc = "analyzed" =>
        LET tasks == input.tasks
            live == LivePositions(tasks)
        IN  /\ \A i \in (1..Len(tasks)) \ live : tasks[i].id \notin ComplexIds(output)
            /\ output.totalTasksAnalyzed = Cardinality(live)
            /\ output.simpleTasksCount + Len(output.complexTasks) = output.totalTasksAnalyzed
            /\ IF live = {}
               THEN output.averageComplexity.num = 0
               ELSE output.averageComplexity.num * Cardinality(live)
                    = SumScores(tasks, live) * output.averageComplexity.den

C5_DoneTaskSkipped ==
    /\ pc = "analyzed"
    /\ Len(input.tasks) = 2
    /\ input.tasks[1].status = "done"
    /\ ~input.tasks[1].completed
    /\ ScoreOf(input.tasks[1]) >= input.threshold
    /\ output.totalTasksAnalyzed = 1
    /\ Len(output.complexTasks) = 1

\* C6: a non-completed task is in complexTasks iff its score is greater than
\* or equal to the threshold; a task scoring exactly the threshold is
\* complex and every task scoring below it is counted as simple.
C6_ComplexIffAtLeastThreshold ==
    pc = "analyzed" =>
        LET tasks == input.tasks
            live == LivePositions(tasks)
        IN  /\ \A i \in live :
                 (tasks[i].id \in ComplexIds(output)) <=> (ScoreOf(tasks[i]) >= input.threshold)
            /\ output.simpleTasksCount
                 = Cardinality({ i \in live : ScoreOf(tasks[i]) < input.threshold })

C6_ExactlyThresholdIsComplex ==
    /\ pc = "analyzed"
    /\ input.threshold = 7
    /\ Len(input.tasks) = 2
    /\ ScoreOf(input.tasks[1]) = 7
    /\ ScoreOf(input.tasks[2]) = 6
    /\ LivePositions(input.tasks) = {1, 2}
    /\ ComplexIds(output) = { input.tasks[1].id }
    /\ output.simpleTasksCount = 1

\* C8: each task classified complex has a non-empty suggestions list when
\* suggestBreakdown is true, whatever its details contain, and an empty one
\* when suggestBreakdown is false.
C8_SuggestionsWhenRequested ==
    pc = "analyzed" =>
        \A k \in 1..Len(output.complexTasks) :
            IF input.suggestBreakdown
            THEN Len(output.complexTasks[k].suggestions) > 0
            ELSE Len(output.complexTasks[k].suggestions) = 0

C8_ComplexWithoutKeywords ==
    /\ pc = "analyzed"
    /\ input.suggestBreakdown
    /\ \E k \in 1..Len(output.complexTasks) :
          /\ MatchedTemplates(output.complexTasks[k].task) = {}
          /\ Len(output.complexTasks[k].suggestions) = 3

(***************************************************************************)
(* Properties of the handler (Spec)                                        *)
(***************************************************************************)
\* the createSubtask requests issued so far, in order
CreateRequests ==
    LET cs == SelectSeq(calls, LAMBDA c : c.op = "createSubtask")
    IN  [ k \in 1..Len(cs) |-> cs[k].record ]

\* one request per suggestion of each complex task, in task then suggestion order
RECURSIVE ExpectedRequests(_)
ExpectedRequests(complexTasks) ==
    IF complexTasks = << >> THEN << >>
    ELSE LET n == Len(complexTasks)
             e == complexTasks[n]
         IN  ExpectedRequests(SubSeq(complexTasks, 1, n - 1))
             \o [ k \in 1..Len(e.suggestions) |->
                    [ id |-> "", name |-> e.suggestions[k].name,
                      details |-> e.suggestions[k].details,
                      taskId |-> e.task.id, projectId |-> e.task.projectId,
                      completed |-> FALSE ] ]

RECURSIVE SuggestionCount(_)
SuggestionCount(complexTasks) ==
    IF complexTasks = << >> THEN 0
    ELSE Len(Head(complexTasks).suggestions) + SuggestionCount(Tail(complexTasks))

\* the selection stage has ended without a failure
SelectionDone ==
    \/ pc \in {"selected", "create", "awaitCreate", "report"}
    \/ pc = "done" /\ thrownAt = 0 /\ response # NotFoundResponse(args.taskId)
    \/ pc = "done" /\ thrownAt # 0 /\ calls[thrownAt].op = "createSubtask"

\* C1: in an invocation with autoCreateSubtasks=true in which no storage call
\* fails, exactly one createSubtask request is issued per (complex task,
\* suggestion) pair and no others, carrying the suggestion's name and details,
\* the owning task's id and projectId and completed=false; the requests are
\* issued one at a time in complex-task then suggestion order, each after the
\* previous one has completed.
C1_OneRequestPerSuggestion ==
    (args.autoCreateSubtasks /\ thrownAt = 0) =>
        LET expected == ExpectedRequests(analysisResults.complexTasks)
            requests == CreateRequests
        IN  /\ Len(requests) <= Len(expected)
            /\ requests = SubSeq(expected, 1, Len(requests))
            /\ Len(requests) - Len(storage.subtasks) = (IF pc = "awaitCreate" THEN 1 ELSE 0)
            /\ pc = "done" =>
                 /\ requests = expected
                 /\ Len(requests) = SuggestionCount(analysisResults.complexTasks)

C1_SixRequests ==
    /\ pc = "done"
    /\ args.autoCreateSubtasks
    /\ thrownAt = 0
    /\ Len(analysisResults.complexTasks) = 2
    /\ \A k \in 1..2 : Len(analysisResults.complexTasks[k].suggestions) = 3
    /\ Len(CreateRequests) = 6
    /\ CreateRequests[4].taskId = "t2"
    /\ Len(storage.subtasks) = 6

\* C2: if the k-th createSubtask request fails, the k-1 subtasks created
\* before it remain persisted, no further createSubtask request is issued and
\* the invocation returns an error response instead of the report.
C2_FailurePartway ==
    (thrownAt # 0 /\ calls[thrownAt].op = "createSubtask") =>
        LET requests == CreateRequests
            k == Len(requests)
        IN  /\ thrownAt = Len(calls)
            /\ pc = "done"
            /\ Len(storage.subtasks) = k - 1
            /\ \A j \in 1..(k - 1) :
                 /\ storage.subtasks[j].name = requests[j].name
                 /\ storage.subtasks[j].taskId = requests[j].taskId
            /\ response.isError
            /\ response.text \in { CatchResponse(e).text : e \in ThrownValues }

C2_ThirdRequestFails ==
    /\ thrownAt # 0
    /\ calls[thrownAt].op = "createSubtask"
    /\ Len(CreateRequests) = 3
    /\ Len(storage.subtasks) = 2
    /\ SuggestionCount(analysisResults.complexTasks) = 6
    /\ pc = "done"

\* the handler has a step to take at its position
StepDefined ==
    \/ pc = "start"
    \/ pc = "projects" /\ projIdx \in 1..Len(projects)
    \/ pc = "selected"
    \/ /\ pc = "create"
       /\ ti \in 1..Len(analysisResults.complexTasks)
       /\ si \in 1..Len(analysisResults.complexTasks[ti].suggestions)
    \/ pc = "awaitCreate" /\ Len(calls) > 0 /\ calls[Len(calls)].op = "createSubtask"
    \/ pc = "report"

\* an upper bound on the number of steps the invocation has left
MaxSuggestions == Len(TemplateKeywords)
StepsLeft ==
    LET stored == Len(StorageTaskList(storage))
        notIssued == Len(ExpectedRequests(analysisResults.complexTasks)) - Len(CreateRequests)
    IN  CASE pc = "done" -> 0
          [] pc = "report" -> 1
          [] pc = "create" -> 2 * notIssued + 1
          [] pc = "awaitCreate" -> 2 * notIssued + 2
          [] pc = "selected" -> 2 * MaxSuggestions * Len(tasksToAnalyze) + 2
          [] pc = "projects" ->
               2 * MaxSuggestions * stored + 2 + (Len(projects) - projIdx + 1)
          [] pc = "start" ->
               2 * MaxSuggestions * stored + 2 + Len(storage.projects) + 1

\* C3: the handler never lets a failure escape: whatever the arguments and
\* whichever storage call throws, the invocation ends by returning a text
\* response (every position before the return has a step to take, a failure
\* leads to the return, and every step brings the return nearer), and
\* whenever a storage call threw the response has the error flag set.
C3_NothingEscapes ==
    /\ [](pc # "done" => StepDefined)
    /\ [](thrownAt # 0 => pc = "done")
    /\ [](pc = "done" =>
            /\ response.type = "text"
            /\ thrownAt # 0 => response.isError)
    /\ [][StepsLeft' < StepsLeft]_vars

C3_GetTasksThrows ==
    /\ pc = "done"
    /\ thrownAt = 3
    /\ calls[1].op = "getProjects"
    /\ calls[3].op = "getTasks"
    /\ response.isError
    /\ response.text = "Error analyzing task complexity: Unknown error"

RECURSIVE TasksOfProjects(_, _)
TasksOfProjects(st, ps) ==
    IF ps = << >> THEN << >>
    ELSE st.tasks[Head(ps)] \o TasksOfProjects(st, Tail(ps))

\* C7: task selection follows the order taskId, projectId, all projects.  With
\* a taskId only getTask(taskId) is consulted, and an absent task yields an
\* error response before any analysis, with no getTasks, getProjects or
\* createSubtask call; otherwise with a projectId the analysed tasks are
\* exactly getTasks(projectId); otherwise they are the concatenation of
\* getTasks(p) over getProjects() in enumeration order.  An empty selection
\* yields the non-error "no tasks" response with no createSubtask call.
C7_SelectionOrder ==
    /\ args.taskId # "" =>
         /\ \A k \in 1..Len(calls) : calls[k].op \in {"getTask", "createSubtask"}
         /\ Len(calls) >= 1 => calls[1] = [ op |-> "getTask", id |-> args.taskId ]
         /\ SelectionDone => tasksToAnalyze = << StorageGetTask(storage, args.taskId) >>
         /\ (pc = "done" /\ thrownAt = 0 /\ StorageGetTask(storage, args.taskId) = NullTask) =>
              /\ response.isError
              /\ response.text = "Error: Task with ID \"" \o args.taskId \o "\" not found."
              /\ Len(calls) = 1
              /\ analysisResults = NoResults
    /\ (args.taskId = "" /\ args.projectId # "" /\ SelectionDone) =>
         /\ tasksToAnalyze = storage.tasks[args.projectId]
         /\ \A k \in 1..Len(calls) : calls[k].op \in {"getTasks", "createSubtask"}
    /\ (args.taskId = "" /\ args.projectId = "" /\ SelectionDone) =>
         tasksToAnalyze = TasksOfProjects(storage, storage.projects)
    /\ (pc = "done" /\ SelectionDone /\ tasksToAnalyze = << >>) =>
         /\ response = [ type |-> "text", text |-> "No tasks found for analysis.",
                         isError |-> FALSE ]
         /\ CreateRequests = << >>
    /\ (pc = "done" /\ SelectionDone /\ tasksToAnalyze # << >>) =>
         response.text # "No tasks found for analysis."

C7_AllProjectsInEnumerationOrder ==
    /\ pc = "done"
    /\ thrownAt = 0
    /\ args.taskId = ""
    /\ args.projectId = ""
    /\ storage.projects = << "p2", "p1" >>
    /\ Len(tasksToAnalyze) = 2
    /\ tasksToAnalyze[1].id = "t2"
    /\ tasksToAnalyze[2].id = "t1"

(***************************************************************************)
(* The increments of the scorer (SpecTask)                                 *)
(***************************************************************************)
HighComplexityVocabulary ==
    { "architecture", "system", "integration", "security", "performance",
      "scalability", "database", "api", "framework", "refactor", "migration" }

ActionVerbVocabulary ==
    { "implement", "create", "build", "develop", "design", "setup",
      "configure", "test", "deploy", "document", "research" }

\* how many words of a vocabulary occur in the lower-cased details
Occurring(vocabulary, task) ==
    LET lower == ToLowerCase(task.details)
    IN  Cardinality({ w \in vocabulary : Includes(lower, w) })

\* the score and the issues the six toggles give
ToggleSum(task) ==
    LET high == Occurring(HighComplexityVocabulary, task)
        verbs == Occurring(ActionVerbVocabulary, task)
        base == IF task.complexity = Absent THEN 5 ELSE task.complexity
    IN  [ score |->
            Min(10, base
                    + (IF Len(task.name) > 50 THEN 1 ELSE 0)
                    + (IF high > 2 THEN 2 ELSE 0)
                    + (IF verbs > 3 THEN 1 ELSE 0)
                    + (IF Len(task.details) > 500 THEN 1 ELSE 0)
                    + (IF task.estimatedHours > 20 THEN 1 ELSE 0)
                    + (IF Len(task.dependsOn) > 3 THEN 1 ELSE 0)),
          issues |->
            (IF Len(task.name) > 50
                THEN << "Task name is very long, suggesting multiple concerns" >>
                ELSE << >>)
            \o (IF high > 2
                THEN << "Contains " \o ToString(high) \o " high-complexity keywords" >>
                ELSE << >>)
            \o (IF verbs > 3
                THEN << "Contains " \o ToString(verbs)
                        \o " different action verbs, suggesting multiple tasks" >>
                ELSE << >>)
            \o (IF Len(task.details) > 500
                THEN << "Task description is very detailed, suggesting high complexity" >>
                ELSE << >>)
            \o (IF task.estimatedHours > 20
                THEN << "High time estimate (" \o ToString(task.estimatedHours)
                        \o " hours) suggests complexity" >>
                ELSE << >>)
            \o (IF Len(task.dependsOn) > 3
                THEN << "Many dependencies (" \o ToString(Len(task.dependsOn))
                        \o ") suggest complex coordination" >>
                ELSE << >>) ]

\* C11: the scorer's result is min(10, base + sum of the triggered
\* increments), base the stored complexity or 5, the increments independent
\* toggles: +1 name longer than 50, +2 more than 2 high-complexity keywords,
\* +1 more than 3 action verbs, +1 details longer than 500, +1 estimatedHours
\* above 20, +1 more than 3 dependencies; the issues hold one entry per
\* triggered increment, in that order.  Exactly 3 high-complexity keywords
\* add 2 and an issue reporting 3; exactly 2 add nothing.
C11_ScoreIsToggleSum ==
    pc = "scored" =>
        /\ output.score = ToggleSum(input.task).score
        /\ output.issues = ToggleSum(input.task).issues
        /\ Occurring(HighComplexityVocabulary, input.task) = 2 =>
             \A k \in 1..Len(output.issues) :
                 output.issues[k] # "Contains 2 high-complexity keywords"

C11_ExactlyThreeKeywords ==
    /\ pc = "scored"
    /\ Occurring(HighComplexityVocabulary, input.task) = 3
    /\ input.task.complexity = 4
    /\ input.task.estimatedHours = 21
    /\ output.score = 7
    /\ output.issues = << "Contains 3 high-complexity keywords",
                          "High time estimate (21 hours) suggests complexity" >>

(***************************************************************************)
(* Properties of the report (Spec)                                         *)
(***************************************************************************)
\* the handler returned the analysis report
ReportReturned ==
    /\ pc = "done"
    /\ thrownAt = 0
    /\ SelectionDone
    /\ tasksToAnalyze # << >>

\* the blocks of the returned report, in order
ReportBlocks == [ k \in 1..Len(response.text) |-> response.text[k].block ]

\* C12: when the analysis result has zero complex tasks, the report consists
\* of the summary counts and the all-clear message followed by a short
\* pointer to get_next_task_recommendation, and has no numbered task list.
C12_ZeroComplexReport ==
    (ReportReturned /\ Len(analysisResults.complexTasks) = 0) =>
        ReportBlocks = << "summary", "allClear", "yourNextStep" >>

\* C13: the report contains the auto-creation confirmation and the "review
\* auto-created subtasks" guidance only if auto-creation occurred: whenever a
\* returned report states that subtasks were auto-created, at least one
\* createSubtask request was issued for each complex task listed in it.
C13_ConfirmationOnlyIfCreated ==
    (/\ ReportReturned
     /\ \E k \in 1..Len(response.text) :
           response.text[k].block \in {"autoCreatedConfirmation", "reviewAutoCreatedSubtasks"})
    => \A t \in 1..Len(analysisResults.complexTasks) :
          \E r \in 1..Len(CreateRequests) :
             CreateRequests[r].taskId = analysisResults.complexTasks[t].task.id

====
